---- MODULE Spec2Model ----
(***************************************************************************)
(* Model of litex/soc/cores/cpu/vexiiriscv/core.py: the VexiiRiscv CPU     *)
(* wrapper of LiteX.  A build is one Python process: the class attributes  *)
(* of VexiiRiscv are the process-wide configuration, one instance is       *)
(* constructed, the SoC registers its bus regions, and do_finalize derives *)
(* the memory map, the netlist name, and drives the netlist cache gate.    *)
(* The artifact store (the data directory holding <netlist_name>.v)        *)
(* outlives the process; successive builds share it.                       *)
(*                                                                         *)
(* Addresses and sizes are counted in units of 0x1_0000 bytes, so that the *)
(* 32-bit address space is AddrSpace units wide and fits TLC's integers.   *)
(* Python strings are sequences of one-character strings.                  *)
(***************************************************************************)
EXTENDS Integers, Sequences, FiniteSets, TLC

\* ------------------------------------------------------------------ bounds
MaxBuilds   == 2    \* successive build processes sharing the artifact store
MaxRegions  == 2    \* regions the surrounding SoC registers on its bus
MaxMemBuses == 2    \* calls of add_memory_buses on one core

\* ------------------------------------------------------- program constants
AddrSpace       == 65536   \* 2^32 bytes / 0x1_0000: pbus address_width = 32
XlenDefault     == 32
L2WaysDefault   == 8
L2BytesArgDefault == 131072

\* ------------------------------------------------------- Python rendering
Digit(d) == <<"0", "1", "2", "3", "4", "5", "6", "7", "8", "9">>[d + 1]

RECURSIVE StrNat(_)
\* str(n) of a non-negative int: its decimal digits.
StrNat(n) == IF n < 10 THEN <<Digit(n)>> ELSE StrNat(n \div 10) \o <<Digit(n % 10)>>

\* str(b) of a bool.
StrBool(b) == IF b THEN <<"T", "r", "u", "e">> ELSE <<"F", "a", "l", "s", "e">>

\* repr(s) of a str inside a container: the text between single quotes.
ReprStr(s) == <<"'">> \o s \o <<"'">>

\* repr of one memory-region tuple (origin, size, mode, bus).
ReprRegion(t) ==
    <<"(">> \o StrNat(t[1]) \o <<",", " ">> \o StrNat(t[2]) \o <<",", " ">>
        \o ReprStr(t[3]) \o <<",", " ">> \o ReprStr(t[4]) \o <<")">>

RECURSIVE JoinRegions(_)
JoinRegions(l) ==
    IF l = <<>> THEN <<>>
    ELSE IF Len(l) = 1 THEN ReprRegion(l[1])
    ELSE ReprRegion(l[1]) \o <<",", " ">> \o JoinRegions(Tail(l))

\* str(l) of the list of memory-region tuples.
StrRegions(l) == <<"[">> \o JoinRegions(l) \o <<"]">>

\* Whether the string s contains the string sub.
Contains(s, sub) ==
    \E i \in 1..(Len(s) - Len(sub) + 1) : SubSeq(s, i, i + Len(sub) - 1) = sub

\* --------------------------------------------------------------- variables
VARIABLES
    cls,        \* class attributes of VexiiRiscv (process-wide configuration)
    cpu,        \* the instance: reset_address, memory_buses, cpu_params, ...
    soc,        \* the surrounding SoC's bus: regions and io_regions, in order
    platform,   \* kind of the platform object handed to __init__
    vdir,       \* data_location of the cpu data module in this build
    files,      \* artifact store: records [dir, name, complete, hw, hashed]
    pc,         \* "class", "constructed", "done", "aborted"
    err,        \* the exception that aborted the build, "" if none
    gen_calls,  \* calls of generate_netlist in this build
    gen_cmd,    \* argument list handed to the external generator, <<>> if none
    sources,    \* files given to platform.add_source in this build
    specials,   \* the Instance added by do_finalize: <<name, ports>> or <<>>
    build       \* number of this build process

vars == <<cls, cpu, soc, platform, vdir, files, pc, err, gen_calls, gen_cmd,
          sources, specials, build>>

\* ------------------------------------------------------------ class state
\* netlist_name = None is the empty sequence.
NoName == <<>>

\* The class body.  Attributes the class body does not define (cpu_count,
\* no_netlist_cache, update_repo, memory_regions, scala_args, scala_paths,
\* perf_bus_width) exist only once something assigns them: cls.has holds the
\* names of those that exist; the field then holds the value.
ClassDefaults ==
    [ netlist_name         |-> NoName,
      xlen                 |-> XlenDefault,
      internal_bus_width   |-> 32,
      litedram_width       |-> 32,
      l2_bytes             |-> 0,
      l2_ways              |-> L2WaysDefault,
      with_fpu             |-> FALSE,
      with_rvc             |-> FALSE,
      with_dma             |-> FALSE,
      jtag_tap             |-> FALSE,
      jtag_instruction     |-> FALSE,
      data_width           |-> 32,
      gcc_triple           |-> "CPU_GCC_TRIPLE_RISCV32",
      linker_output_format |-> "elf32-littleriscv",
      cpu_count            |-> 0,
      no_netlist_cache     |-> FALSE,
      update_repo          |-> "",
      memory_regions       |-> <<>>,
      scala_args           |-> <<>>,
      scala_paths          |-> <<>>,
      perf_bus_width       |-> 0,
      has                  |-> {} ]

\* mem_map of the CPU, in units of 0x1_0000.
mem_map ==
    [ rom |-> 0, sram |-> 4096, main_ram |-> 16384,
      csr |-> 61440, clint |-> 61441, plic |-> 61632 ]

\* io_regions of the class: {0x8000_0000: 0x8000_0000}.
io_regions == <<[origin |-> 32768, size |-> 32768]>>

NoCpu ==
    [ reset_address |-> 0, memory_buses |-> <<>>, cpu_params |-> {},
      dma_bus |-> 0, has |-> {} ]

\* ------------------------------------------------------------------ ports
\* Keys of cpu_params set by __init__ unconditionally.
BasePorts ==
    { "i_socClk", "i_asyncReset", "i_peripheral_externalInterrupts_port",
      "o_pBus_awvalid", "i_pBus_awready", "o_pBus_awaddr", "o_pBus_awprot",
      "o_pBus_wvalid", "i_pBus_wready", "o_pBus_wdata", "o_pBus_wstrb",
      "i_pBus_bvalid", "o_pBus_bready", "i_pBus_bresp",
      "o_pBus_arvalid", "i_pBus_arready", "o_pBus_araddr", "o_pBus_arprot",
      "i_pBus_rvalid", "o_pBus_rready", "i_pBus_rdata", "i_pBus_rresp" }

\* Keys of cpu_params added by __init__ when with_dma.
DmaPorts ==
    { "o_dma_bus_awready", "i_dma_bus_awvalid", "i_dma_bus_awid", "i_dma_bus_awaddr",
      "i_dma_bus_awlen", "i_dma_bus_awsize", "i_dma_bus_awburst", "i_dma_bus_awlock",
      "i_dma_bus_awcache", "i_dma_bus_awprot", "i_dma_bus_awqos",
      "o_dma_bus_wready", "i_dma_bus_wvalid", "i_dma_bus_wdata", "i_dma_bus_wstrb",
      "i_dma_bus_wlast",
      "i_dma_bus_bready", "o_dma_bus_bvalid", "o_dma_bus_bid", "o_dma_bus_bresp",
      "o_dma_bus_arready", "i_dma_bus_arvalid", "i_dma_bus_arid", "i_dma_bus_araddr",
      "i_dma_bus_arlen", "i_dma_bus_arsize", "i_dma_bus_arburst", "i_dma_bus_arlock",
      "i_dma_bus_arcache", "i_dma_bus_arprot", "i_dma_bus_arqos",
      "i_dma_bus_rready", "o_dma_bus_rvalid", "o_dma_bus_rid", "o_dma_bus_rdata",
      "o_dma_bus_rresp", "o_dma_bus_rlast" }

\* Keys of cpu_params added by add_memory_buses.
MemPorts ==
    { "o_mBus_awvalid", "i_mBus_awready", "o_mBus_awaddr", "o_mBus_awid",
      "o_mBus_awlen", "o_mBus_awsize", "o_mBus_awburst", "o_mBus_awallStrb",
      "o_mBus_wvalid", "i_mBus_wready", "o_mBus_wdata", "o_mBus_wstrb", "o_mBus_wlast",
      "i_mBus_bvalid", "o_mBus_bready", "i_mBus_bid", "i_mBus_bresp",
      "o_mBus_arvalid", "i_mBus_arready", "o_mBus_araddr", "o_mBus_arid",
      "o_mBus_arlen", "o_mBus_arsize", "o_mBus_arburst",
      "i_mBus_rvalid", "o_mBus_rready", "i_mBus_rdata", "i_mBus_rid",
      "i_mBus_rresp", "i_mBus_rlast" }

\* Keys of cpu_params added by add_soc_components, by debug option.
JtagTapPorts == { "i_jtag_tms", "i_jtag_tck", "i_jtag_tdi", "o_jtag_tdo" }

JtagInstructionPorts ==
    { "i_jtag_instruction_clk", "i_jtag_instruction_enable",
      "i_jtag_instruction_capture", "i_jtag_instruction_shift",
      "i_jtag_instruction_update", "i_jtag_instruction_reset",
      "i_jtag_instruction_tdi", "o_jtag_instruction_tdo" }

DebugPorts == { "i_debug_reset", "o_debug_ndmreset" }

\* ------------------------------------------------------- the build process
\* An exception leaves the build: nothing after the raising line runs.
Raise(e) == pc' = "aborted" /\ err' = e

\* args_read(args): args is the parsed namespace; a value that is falsy
\* (0) leaves the class attribute as it was.
args_read(args) ==
    /\ pc = "class"
    /\ cls' =
        LET c1 == [cls EXCEPT
                     !.jtag_tap         = args.with_jtag_tap,
                     !.jtag_instruction = args.with_jtag_instruction,
                     !.with_dma         = args.with_coherent_dma,
                     !.update_repo      = args.update_repo,
                     !.no_netlist_cache = args.no_netlist_cache,
                     !.with_fpu         = args.with_fpu,
                     !.with_rvc         = args.with_rvc,
                     !.has = @ \cup {"update_repo", "no_netlist_cache"}]
            c2 == IF args.xlen # 0
                  THEN [c1 EXCEPT
                          !.internal_bus_width   = args.xlen,
                          !.xlen                 = args.xlen,
                          !.data_width           = args.xlen,
                          !.gcc_triple           = "CPU_GCC_TRIPLE_RISCV64",
                          !.linker_output_format =
                              IF args.xlen = 64 THEN "elf64-littleriscv"
                                                ELSE "elf32-littleriscv"]
                  ELSE c1
            c3 == IF args.cpu_count # 0
                  THEN [c2 EXCEPT !.cpu_count = args.cpu_count,
                                  !.has = @ \cup {"cpu_count"}]
                  ELSE c2
            c4 == IF args.l2_bytes # 0 THEN [c3 EXCEPT !.l2_bytes = args.l2_bytes] ELSE c3
        IN  IF args.l2_ways # 0 THEN [c4 EXCEPT !.l2_ways = args.l2_ways] ELSE c4
    /\ UNCHANGED <<cpu, soc, platform, vdir, files, pc, err, gen_calls, gen_cmd,
                   sources, specials, build>>

\* __init__(platform, variant): the peripheral bus always; the DMA bus when
\* with_dma, whose width reads the class attribute perf_bus_width.
init(p) ==
    /\ pc = "class"
    /\ platform' = p
    /\ IF cls.with_dma /\ "perf_bus_width" \notin cls.has
       THEN /\ Raise("AttributeError: perf_bus_width")
            /\ cpu' = [NoCpu EXCEPT !.cpu_params = BasePorts]
       ELSE /\ pc' = "constructed"
            /\ err' = err
            /\ cpu' = IF cls.with_dma
                      THEN [NoCpu EXCEPT !.cpu_params = BasePorts \cup DmaPorts,
                                         !.dma_bus = cls.perf_bus_width,
                                         !.has = {"dma_bus"}]
                      ELSE [NoCpu EXCEPT !.cpu_params = BasePorts]
    /\ UNCHANGED <<cls, soc, vdir, files, gen_calls, gen_cmd, sources, specials,
                   build>>

set_reset_address(reset_address) ==
    /\ pc = "constructed"
    /\ cpu' = [cpu EXCEPT !.reset_address = reset_address,
                          !.has = @ \cup {"reset_address"}]
    /\ UNCHANGED <<cls, soc, platform, vdir, files, pc, err, gen_calls, gen_cmd,
                   sources, specials, build>>

\* A region of the SoC bus (SoCRegion under a name).
Region(name, origin, size, mode, cached, linker) ==
    [name |-> name, origin |-> origin, size |-> size, mode |-> mode,
     cached |-> cached, linker |-> linker]

\* The names under which regions are registered (the keys of the dict).
Names(regions) == {regions[i].name : i \in 1..Len(regions)}

\* The three regions add_soc_components registers, all linker-only.
SocComponentRegions ==
    << Region("opensbi", mem_map.main_ram + 240, 8, <<"r", "w", "x">>, TRUE, TRUE),
       Region("plic",  mem_map.plic,  64, <<"r", "w", "x">>, FALSE, TRUE),
       Region("clint", mem_map.clint, 1,  <<"r", "w", "x">>, FALSE, TRUE) >>

\* add_soc_components(soc): registers the linker regions, adds the debug
\* ports the class flags ask for, and keeps the SoC bus for finalization.
\* The CPU_COUNT config reads cpu_count, the CPU_MMU config looks xlen up in
\* {32, 64}: either may raise, after the opensbi region was registered.
add_soc_components ==
    /\ pc = "constructed"
    /\ "soc_bus" \notin cpu.has
    /\ "opensbi" \notin Names(soc.regions)
    /\ IF "cpu_count" \notin cls.has
       THEN /\ Raise("AttributeError: cpu_count")
            /\ soc' = [soc EXCEPT !.regions = Append(@, SocComponentRegions[1])]
            /\ cpu' = cpu
       ELSE IF cls.xlen \notin {32, 64}
       THEN /\ Raise("KeyError: xlen")
            /\ soc' = [soc EXCEPT !.regions = Append(@, SocComponentRegions[1])]
            /\ cpu' = cpu
       ELSE /\ pc' = pc
            /\ err' = err
            /\ soc' = [soc EXCEPT !.regions = @ \o SocComponentRegions]
            /\ cpu' = [cpu EXCEPT
                 !.cpu_params =
                     @ \cup (IF cls.jtag_tap THEN JtagTapPorts ELSE {})
                       \cup (IF cls.jtag_instruction THEN JtagInstructionPorts ELSE {})
                       \cup (IF cls.jtag_instruction \/ cls.jtag_tap
                             THEN DebugPorts ELSE {}),
                 !.has = @ \cup {"soc_bus"}]
    /\ UNCHANGED <<cls, platform, vdir, files, gen_calls, gen_cmd,
                   sources, specials, build>>

\* add_memory_buses(address_width, data_width): no guard on a bus being
\* attached already.
add_memory_buses(address_width, data_width) ==
    /\ pc = "constructed"
    /\ Len(cpu.memory_buses) < MaxMemBuses
    /\ cls' = [cls EXCEPT !.litedram_width = data_width]
    /\ cpu' = [cpu EXCEPT !.memory_buses = Append(@, data_width),
                          !.cpu_params = @ \cup MemPorts]
    /\ UNCHANGED <<soc, platform, vdir, files, pc, err, gen_calls, gen_cmd,
                   sources, specials, build>>

\* -------------------------------------------------- the surrounding system

\* The SoC registers a region on its bus (soc.bus.regions is keyed by name).
\* It does so once the CPU is part of the SoC, that is, after the call of
\* add_soc_components that hands the bus to the CPU.
soc_add_region(r) ==
    /\ pc = "constructed"
    /\ "soc_bus" \in cpu.has
    /\ r.name \notin Names(soc.regions)
    /\ Len(SelectSeq(soc.regions, LAMBDA x : ~x.linker)) < MaxRegions
    /\ soc' = [soc EXCEPT !.regions = Append(@, r)]
    /\ UNCHANGED <<cls, cpu, platform, vdir, files, pc, err, gen_calls, gen_cmd,
                   sources, specials, build>>

\* The SoC declares an IO window (soc.bus.io_regions).
soc_add_io_region(w) ==
    /\ pc = "constructed"
    /\ \A i \in 1..Len(soc.io_regions) : soc.io_regions[i] # w
    /\ soc' = [soc EXCEPT !.io_regions = Append(@, w)]
    /\ UNCHANGED <<cls, cpu, platform, vdir, files, pc, err, gen_calls, gen_cmd,
                   sources, specials, build>>

\* Code outside this file assigns a class attribute the class body leaves
\* undefined (VexiiRiscv.scala_args = [...], and so on).
define_attr(name, value) ==
    /\ pc = "class"
    /\ name \notin cls.has
    /\ cls' = CASE name = "scala_args"     -> [cls EXCEPT !.scala_args = value,
                                                         !.has = @ \cup {name}]
                [] name = "scala_paths"    -> [cls EXCEPT !.scala_paths = value,
                                                         !.has = @ \cup {name}]
                [] name = "perf_bus_width" -> [cls EXCEPT !.perf_bus_width = value,
                                                         !.has = @ \cup {name}]
    /\ UNCHANGED <<cpu, soc, platform, vdir, files, pc, err, gen_calls, gen_cmd,
                   sources, specials, build>>

\* ------------------------------------------------------ memory map (do_finalize)
\* Mutant: IO windows are given the cacheable flag.
IoRegionEntry_Cached(region) ==
    <<region.origin, region.size, <<"i", "o", "c">>, <<"p">>>>

\* The entry appended for an IO window.
IoRegionEntry(region) == <<region.origin, region.size, <<"i", "o">>, <<"p">>>>

\* Mutant: with a memory bus attached every region goes to the "m" bus.
RegionBus_AnyName(memory_buses, name) ==
    IF Len(memory_buses) # 0 THEN <<"m">> ELSE <<"p">>

\* The bus of a bus region: "m" for main_ram once a memory bus is attached.
RegionBus(memory_buses, name) ==
    IF Len(memory_buses) # 0 /\ name = "main_ram" THEN <<"m">> ELSE <<"p">>

\* The mode of a bus region: its declared mode, plus "c" when cached.
RegionMode(region) == region.mode \o (IF region.cached THEN <<"c">> ELSE <<>>)

\* Virtual (linker) regions are skipped.
Emitted(regions) == SelectSeq(regions, LAMBDA r : ~r.linker)

\* The entry appended for a bus region that is not skipped.
RegionEntry(memory_buses, region) ==
    <<region.origin, region.size, RegionMode(region),
      RegionBus(memory_buses, region.name)>>

\* VexiiRiscv.memory_regions as do_finalize builds it: the IO windows in
\* their order, then the non-linker bus regions in their order.
MemoryRegions(io, regions, memory_buses) ==
    [i \in 1..Len(io) |-> IoRegionEntry(io[i])]
        \o [i \in 1..Len(Emitted(regions)) |->
                RegionEntry(memory_buses, Emitted(regions)[i])]

\* ------------------------------------------------------------ netlist name
\* The values generate_netlist_name feeds to the hash, in order.
HashedValues(c, reset_address) ==
    << reset_address, c.litedram_width, c.xlen, c.cpu_count, c.l2_bytes,
       c.l2_ways, c.jtag_tap, c.jtag_instruction, c.with_dma,
       c.memory_regions, c.internal_bus_width >>

\* The str() of each hashed value, one md5 update after the other, with
\* nothing between them.
HashText(v) ==
    StrNat(v[1]) \o StrNat(v[2]) \o StrNat(v[3]) \o StrNat(v[4])
        \o StrNat(v[5]) \o StrNat(v[6]) \o StrBool(v[7]) \o StrBool(v[8])
        \o StrBool(v[9]) \o StrRegions(v[10]) \o StrNat(v[11])

\* Mutant: the data directory is hashed as well.
HashInput_WithDir(c, reset_address) ==
    HashText(HashedValues(c, reset_address)) \o <<vdir>>

\* The bytes the hash of generate_netlist_name sees.
HashInput(c, reset_address) == HashText(HashedValues(c, reset_address))

\* hexdigest of MD5 over data.  MD5 is taken to be collision-free, so the
\* digest is an injective image of the bytes hashed.
md5_hexdigest(data) == <<"md5:">> \o data

\* VexiiRiscv.netlist_name after generate_netlist_name(reset_address).
generate_netlist_name(c, reset_address) ==
    <<"VexiiRiscvLitex_">> \o md5_hexdigest(HashInput(c, reset_address))

\* ------------------------------------------------------ netlist generation
\* One argument of the generator: its option and the text after "=".
Arg(option, text) == <<option, text>>

\* "--memory-region=" text of a region: its four fields joined by commas.
RegionArg(t) ==
    StrNat(t[1]) \o <<",">> \o StrNat(t[2]) \o <<",">> \o t[3] \o <<",">> \o t[4]

\* gen_args of generate_netlist, in order.
GenArgs(c, reset_address, vd) ==
    << Arg("--netlist-name", c.netlist_name),
       Arg("--netlist-directory", <<vd>>),
       Arg("--reset-vector", StrNat(reset_address)),
       Arg("--xlen", StrNat(c.xlen)),
       Arg("--cpu-count", StrNat(c.cpu_count)),
       Arg("--l2-bytes", StrNat(c.l2_bytes)),
       Arg("--l2-ways", StrNat(c.l2_ways)),
       Arg("--litedram-width", StrNat(c.litedram_width)),
       Arg("--internal_bus_width", StrNat(c.internal_bus_width)) >>
    \o [i \in 1..Len(c.memory_regions) |->
            Arg("--memory-region", RegionArg(c.memory_regions[i]))]
    \o [i \in 1..Len(c.scala_args) |-> Arg("--scala-args", c.scala_args[i])]
    \o (IF c.jtag_tap THEN <<Arg("--with-jtag-tap", <<>>)>> ELSE <<>>)
    \o (IF c.jtag_instruction THEN <<Arg("--with-jtag-instruction", <<>>)>> ELSE <<>>)
    \o (IF c.jtag_tap \/ c.jtag_instruction THEN <<Arg("--with-debug", <<>>)>> ELSE <<>>)
    \o (IF c.with_dma THEN <<Arg("--with-dma", <<>>)>> ELSE <<>>)
    \o [i \in 1..Len(c.scala_paths) |-> Arg("--scala-file", c.scala_paths[i])]
    \o (IF c.with_fpu
        THEN <<Arg("--scala-args", <<"r","v","f","=","t","r","u","e",",",
                                     "r","v","d","=","t","r","u","e">>)>>
        ELSE <<>>)
    \o (IF c.with_rvc
        THEN <<Arg("--scala-args", <<"r","v","c","=","t","r","u","e">>)>>
        ELSE <<>>)

\* The arguments that decide the hardware generated: all but the netlist
\* name and the netlist directory.
HwArgs(cmd) == SubSeq(cmd, 3, Len(cmd))

\* The artifact store.
NetlistFile(name) == name \o <<".v">>

Exists(fs, dir, fname) == \E f \in fs : f.dir = dir /\ f.name = fname

\* The store after the generator wrote fname in dir.  The generator is a
\* function of its arguments: a file holds the hardware of the hw arguments
\* it was generated from, named after the values hashed.
Written(fs, dir, fname, complete, hw, hashed) ==
    {f \in fs : ~(f.dir = dir /\ f.name = fname)}
        \cup {[dir |-> dir, name |-> fname, complete |-> complete,
               hw |-> hw, hashed |-> hashed]}

\* What the external generator (sbt runMain ... VexiiGen) does with the
\* command: "ok" writes the netlist and returns 0; "fail" returns non-zero
\* having written nothing; "fail_partial" returns non-zero having left a
\* partly written netlist.
GenOutcomes == {"ok", "fail", "fail_partial"}

\* generate_netlist(reset_address): [err, files, cmd] after the call.
generate_netlist(c, reset_address, vd, fs, out) ==
    IF "scala_args" \notin c.has
    THEN [err |-> "AttributeError: scala_args", files |-> fs, cmd |-> <<>>]
    ELSE IF "scala_paths" \notin c.has
    THEN [err |-> "AttributeError: scala_paths", files |-> fs, cmd |-> <<>>]
    ELSE LET cmd == GenArgs(c, reset_address, vd)
             fname == NetlistFile(c.netlist_name)
             hw == HwArgs(cmd)
             hashed == HashedValues(c, reset_address)
         IN  CASE out = "ok" ->
                    [err |-> "", cmd |-> cmd,
                     files |-> Written(fs, vd, fname, TRUE, hw, hashed)]
               [] out = "fail" ->
                    [err |-> "CalledProcessError", cmd |-> cmd, files |-> fs]
               [] out = "fail_partial" ->
                    [err |-> "CalledProcessError", cmd |-> cmd,
                     files |-> Written(fs, vd, fname, FALSE, hw, hashed)]

\* Mutant: the gate ignores no_netlist_cache.
NeedsGeneration_NoBypass(no_netlist_cache, exists) == ~exists

\* The condition of add_sources under which generate_netlist is called.
NeedsGeneration(no_netlist_cache, exists) == no_netlist_cache \/ ~exists

\* The RAM implementation add_sources picks for the platform.
RamFilename(p) ==
    CASE p = "altera" -> <<"Ram_1w_1rs_Intel.v">>
      [] p = "efinix" -> <<"Ram_1w_1rs_Efinix.v">>
      [] OTHER        -> <<"Ram_1w_1rs_Generic.v">>

\* add_sources(platform): [err, files, calls, cmd, sources] after the call.
add_sources(c, reset_address, vd, fs, p, out) ==
    IF "no_netlist_cache" \notin c.has
    THEN [err |-> "AttributeError: no_netlist_cache", files |-> fs, calls |-> 0,
          cmd |-> <<>>, sources |-> <<>>]
    ELSE IF NeedsGeneration(c.no_netlist_cache,
                            Exists(fs, vd, NetlistFile(c.netlist_name)))
    THEN LET g == generate_netlist(c, reset_address, vd, fs, out)
         IN  [err |-> g.err, files |-> g.files, calls |-> 1, cmd |-> g.cmd,
              sources |-> IF g.err = ""
                          THEN <<<<vd, RamFilename(p)>>,
                                 <<vd, NetlistFile(c.netlist_name)>>>>
                          ELSE <<>>]
    ELSE [err |-> "", files |-> fs, calls |-> 0, cmd |-> <<>>,
          sources |-> <<<<vd, RamFilename(p)>>, <<vd, NetlistFile(c.netlist_name)>>>>]

\* do_finalize(), with the outcome the external generator would have.
do_finalize(out) ==
    /\ pc = "constructed"
    /\ IF "reset_address" \notin cpu.has
       THEN /\ Raise("AssertionError: reset_address")
            /\ UNCHANGED <<cls, files, gen_calls, gen_cmd, sources, specials>>
       ELSE IF "soc_bus" \notin cpu.has
       THEN /\ Raise("AttributeError: soc_bus")
            /\ cls' = [cls EXCEPT !.memory_regions = <<>>,
                                  !.has = @ \cup {"memory_regions"}]
            /\ UNCHANGED <<files, gen_calls, gen_cmd, sources, specials>>
       ELSE LET c1 == [cls EXCEPT
                         !.memory_regions =
                             MemoryRegions(soc.io_regions, soc.regions, cpu.memory_buses),
                         !.has = @ \cup {"memory_regions"}]
            IN  IF "cpu_count" \notin cls.has
                THEN /\ Raise("AttributeError: cpu_count")
                     /\ cls' = c1
                     /\ UNCHANGED <<files, gen_calls, gen_cmd, sources, specials>>
                ELSE LET c2 == [c1 EXCEPT !.netlist_name =
                                    generate_netlist_name(c1, cpu.reset_address)]
                         a  == add_sources(c2, cpu.reset_address, vdir, files,
                                           platform, out)
                     IN  /\ cls' = c2
                         /\ specials' = <<c2.netlist_name, cpu.cpu_params>>
                         /\ files' = a.files
                         /\ gen_calls' = gen_calls + a.calls
                         /\ gen_cmd' = a.cmd
                         /\ sources' = a.sources
                         /\ IF a.err = "" THEN pc' = "done" /\ err' = err
                                          ELSE Raise(a.err)
    /\ UNCHANGED <<cpu, soc, platform, vdir, build>>

\* ------------------------------------------------------- successive builds
NoSoc == [regions |-> <<>>, io_regions |-> <<>>]

\* The build process ends and another one starts, with the data module at
\* d: the class is loaded afresh, the artifact store is what it was.
new_build(d) ==
    /\ pc \in {"done", "aborted"}
    /\ build < MaxBuilds
    /\ build' = build + 1
    /\ vdir' = d
    /\ cls' = ClassDefaults
    /\ cpu' = NoCpu
    /\ soc' = NoSoc
    /\ platform' = "generic"
    /\ pc' = "class"
    /\ err' = ""
    /\ gen_calls' = 0
    /\ gen_cmd' = <<>>
    /\ sources' = <<>>
    /\ specials' = <<>>
    /\ UNCHANGED files

\* ------------------------------------------------------------------ inputs
\* The defaults of the options args_fill declares.
BaseArgs ==
    [ with_jtag_tap |-> FALSE, with_jtag_instruction |-> FALSE,
      with_coherent_dma |-> FALSE, update_repo |-> "recommended",
      no_netlist_cache |-> FALSE, with_fpu |-> FALSE, with_rvc |-> FALSE,
      xlen |-> XlenDefault, cpu_count |-> 1, l2_bytes |-> L2BytesArgDefault,
      l2_ways |-> L2WaysDefault ]

\* Option sets of one build of an SoC: debug, DMA and cache options.
SocArgs ==
    { [BaseArgs EXCEPT !.with_coherent_dma = dma] : dma \in BOOLEAN }

\* Option sets of successive builds: what the cache is sensitive to.
BuildArgs ==
    { [BaseArgs EXCEPT !.no_netlist_cache = nc, !.with_fpu = fpu, !.l2_bytes = l2]
        : nc \in BOOLEAN, fpu \in BOOLEAN, l2 \in {0, L2BytesArgDefault} }

\* Class attributes code outside this file may define, with a value.
ExternAttrs ==
    { <<"scala_args", <<>>>>, <<"scala_paths", <<>>>>, <<"perf_bus_width", 64>> }

Platforms == {"generic", "altera", "efinix"}

SocPlatforms == {"generic"}

\* Reset addresses the SoC sets: rom and main_ram of mem_map.
ResetAddresses == {mem_map.rom, mem_map.main_ram}

\* Data widths of the LiteDRAM port handed to add_memory_buses.
MemBusWidths == {64, 128}

\* IO windows the SoC may declare: io_regions of the class.
IoPool == {io_regions[1]}

\* Regions the SoC may register on its bus: main_ram and rom at their
\* mem_map origins, an uncached peripheral at the start of the IO window,
\* and a cached memory at 0xF000_0000 of size 0x2000_0000, which runs past
\* the end of the address space.
RegionPool ==
    { Region("main_ram", mem_map.main_ram, 4096, <<"r", "w", "x">>, TRUE, FALSE),
      Region("rom",      mem_map.rom,      2,    <<"r", "x">>,      TRUE, FALSE),
      Region("uart",     32768,            1,    <<"r", "w">>,      FALSE, FALSE),
      Region("hyperram", 61440,            8192, <<"r", "w", "x">>, TRUE, FALSE) }

\* Data directories of the cpu data module.
Dirs == {"/data1", "/data2"}

\* ---------------------------------------------------------- specifications
Init ==
    /\ cls = ClassDefaults
    /\ cpu = NoCpu
    /\ soc = NoSoc
    /\ platform = "generic"
    /\ vdir = "/data1"
    /\ files = {}
    /\ pc = "class"
    /\ err = ""
    /\ gen_calls = 0
    /\ gen_cmd = <<>>
    /\ sources = <<>>
    /\ specials = <<>>
    /\ build = 1

\* One build of an SoC: configuration, construction, bus composition, the
\* SoC's region registration, finalization.
Next ==
    \/ \E a \in SocArgs : args_read(a)
    \/ \E e \in ExternAttrs : define_attr(e[1], e[2])
    \/ \E p \in Platforms : init(p)
    \/ \E r \in ResetAddresses : set_reset_address(r)
    \/ add_soc_components
    \/ \E w \in MemBusWidths : add_memory_buses(32, w)
    \/ \E r \in RegionPool : soc_add_region(r)
    \/ \E w \in IoPool : soc_add_io_region(w)
    \/ \E out \in {"ok", "fail"} : do_finalize(out)

Spec == Init /\ [][Next]_vars

\* Class attributes the generator needs that code outside this file defines.
GenAttrs == { <<"scala_args", <<>>>>, <<"scala_paths", <<>>>> }

\* The region the SoC of successive builds may register: main_ram.
BuildRegions == {r \in RegionPool : r.name = "main_ram"}

\* Successive builds over one artifact store: configuration, construction,
\* finalization with the cache gate, and the next build.
NextBuilds ==
    \/ \E a \in BuildArgs : args_read(a)
    \/ \E e \in GenAttrs : define_attr(e[1], e[2])
    \/ \E p \in SocPlatforms : init(p)
    \/ \E r \in {mem_map.rom} : set_reset_address(r)
    \/ add_soc_components
    \/ \E r \in BuildRegions : soc_add_region(r)
    \/ \E out \in GenOutcomes : do_finalize(out)
    \/ \E d \in Dirs : new_build(d)

SpecBuilds == Init /\ [][NextBuilds]_vars

\* Option sets that differ in --cpu-count and --l2-bytes only.
NameArgs ==
    { [BaseArgs EXCEPT !.cpu_count = n, !.l2_bytes = b]
        : n \in {1, 12}, b \in {8, 28} }

\* Successive builds in one data directory whose generation succeeds:
\* configuration, construction, finalization, and the next build.
NextNames ==
    \/ \E a \in NameArgs : args_read(a)
    \/ \E e \in GenAttrs : define_attr(e[1], e[2])
    \/ \E p \in SocPlatforms : init(p)
    \/ \E r \in {mem_map.rom} : set_reset_address(r)
    \/ add_soc_components
    \/ do_finalize("ok")
    \/ new_build("/data1")

SpecNames == Init /\ [][NextNames]_vars

\* ------------------------------------------------------------- properties
\* do_finalize has run and derived the memory map from the SoC bus.
MapDerived ==
    /\ pc \in {"done", "aborted"}
    /\ "soc_bus" \in cpu.has
    /\ "memory_regions" \in cls.has

\* add_sources was entered by the do_finalize step: the Instance was added.
GateReached == specials # <<>>

\* C4: IO exclusivity of the derived memory map.  The entry emitted for each
\* declared IO window has bus "p" and a mode that contains "io" and no "c";
\* and no emitted entry whose mode contains "io" has bus "m".
C4_IoExclusivity ==
    MapDerived =>
        /\ \A i \in 1..Len(soc.io_regions) :
              /\ i <= Len(cls.memory_regions)
              /\ LET e == cls.memory_regions[i]
                 IN  /\ e[1] = soc.io_regions[i].origin
                     /\ e[2] = soc.io_regions[i].size
                     /\ e[4] = <<"p">>
                     /\ Contains(e[3], <<"i", "o">>)
                     /\ ~Contains(e[3], <<"c">>)
        /\ \A j \in 1..Len(cls.memory_regions) :
              Contains(cls.memory_regions[j][3], <<"i", "o">>)
                  => cls.memory_regions[j][4] # <<"m">>

\* A map with an IO window next to a main_ram served by the memory bus.
C4_Witness ==
    /\ MapDerived
    /\ pc = "done"
    /\ Len(soc.io_regions) >= 1
    /\ \E j \in 1..Len(cls.memory_regions) : cls.memory_regions[j][4] = <<"m">>

\* C5: bus affinity.  The entry of every non-linker bus region has bus "m"
\* if and only if a memory bus was attached before finalization and the
\* region is named main_ram; otherwise its bus is "p".
C5_BusAffinity ==
    MapDerived =>
        LET em == Emitted(soc.regions)
            k  == Len(soc.io_regions)
        IN  /\ Len(cls.memory_regions) = k + Len(em)
            /\ \A i \in 1..Len(em) :
                  LET e == cls.memory_regions[k + i]
                  IN  /\ e[1] = em[i].origin
                      /\ e[4] \in {<<"m">>, <<"p">>}
                      /\ e[4] = <<"m">> <=>
                            (Len(cpu.memory_buses) >= 1 /\ em[i].name = "main_ram")

\* A map of main_ram and another region, derived with a memory bus attached.
C5_Witness ==
    /\ MapDerived
    /\ pc = "done"
    /\ Len(cpu.memory_buses) >= 1
    /\ \E i, j \in 1..Len(cls.memory_regions) :
          /\ cls.memory_regions[i][4] = <<"m">>
          /\ cls.memory_regions[j][4] = <<"p">>
          /\ ~Contains(cls.memory_regions[j][3], <<"i", "o">>)

\* A non-linker bus region wraps the address space, or two of them overlap
\* and are served by different buses.
RegionConflict ==
    LET em == Emitted(soc.regions)
        Bus(r) == RegionBus(cpu.memory_buses, r.name)
    IN  \/ \E i \in 1..Len(em) : em[i].origin + em[i].size > AddrSpace
        \/ \E i, j \in 1..Len(em) :
              /\ i # j
              /\ em[i].origin < em[j].origin + em[j].size
              /\ em[j].origin < em[i].origin + em[i].size
              /\ Bus(em[i]) # Bus(em[j])

\* C6: region conflicts abort finalization.  When the registered regions
\* hold a wrapping region or two overlapping regions of different bus
\* affinity, do_finalize aborts before the netlist name is computed: no
\* memory map is emitted, no name, no Instance, no generation.
C6_RegionConflictAborts ==
    ( /\ pc \in {"done", "aborted"}
      /\ {"reset_address", "soc_bus"} \subseteq cpu.has
      /\ RegionConflict )
        => /\ pc = "aborted"
           /\ "memory_regions" \notin cls.has
           /\ cls.netlist_name = NoName
           /\ specials = <<>>
           /\ gen_calls = 0

\* C7: the emitted memory map holds no two entries of the same origin.
C7_NoDuplicateOrigin ==
    MapDerived =>
        \A i, j \in 1..Len(cls.memory_regions) :
            i # j => cls.memory_regions[i][1] # cls.memory_regions[j][1]

\* C8: a core holds at most one memory bus; a second add_memory_buses fails.
C8_SingleMemoryBus == Len(cpu.memory_buses) <= 1

\* C10: DMA bus composition.  With with_dma the constructor succeeds and
\* cpu_params holds every port of the five DMA channels; without it there
\* is no dma_bus and no DMA port.
C10_DmaComposition ==
    pc # "class" =>
        IF cls.with_dma
        THEN /\ err # "AttributeError: perf_bus_width"
             /\ "dma_bus" \in cpu.has
             /\ DmaPorts \subseteq cpu.cpu_params
        ELSE /\ "dma_bus" \notin cpu.has
             /\ DmaPorts \cap cpu.cpu_params = {}

\* The do_finalize step of a configured build that enters add_sources.
GateStep ==
    /\ pc = "constructed"
    /\ pc' # "constructed"
    /\ specials' # <<>>
    /\ "no_netlist_cache" \in cls.has

\* C1: the netlist cache gate of add_sources.  In a build that finds
\* <netlist_name>.v in its data directory with no_netlist_cache false,
\* generate_netlist is not called; with no_netlist_cache true it is called,
\* whether or not the file is there.
C1_CacheGate ==
    [][ GateStep =>
          /\ ( /\ ~cls.no_netlist_cache
               /\ Exists(files, vdir, NetlistFile(cls'.netlist_name)) )
                 => gen_calls' = 0
          /\ cls.no_netlist_cache => gen_calls' = 1 ]_vars

\* A later build that was served from the cache: finished with no call of
\* generate_netlist, its netlist in the store.
C1_Witness ==
    /\ build > 1
    /\ pc = "done"
    /\ ~cls.no_netlist_cache
    /\ gen_calls = 0
    /\ Exists(files, vdir, NetlistFile(cls.netlist_name))

\* The generator's hardware arguments for the configuration of this build.
HwArgsNow == HwArgs(GenArgs(cls, cpu.reset_address, vdir))

\* This build has named its netlist and can build the generator's arguments.
Named ==
    /\ cls.netlist_name # NoName
    /\ {"scala_args", "scala_paths"} \subseteq cls.has

\* C2: the fingerprint covers every argument of the generator.  For this
\* build and the build any stored netlist was generated by: with the same
\* memory-region list, if an argument of the generator other than the
\* netlist name and directory differs, the values hashed differ.
C2_FingerprintCoversGeneratorArgs ==
    \A f \in files :
        ( /\ Named
          /\ f.hashed[10] = cls.memory_regions
          /\ f.hw # HwArgsNow )
            => f.hashed # HashedValues(cls, cpu.reset_address)

\* This build passed the cache gate with no_netlist_cache false, and f is a
\* netlist an earlier build generated with success from the same
\* configuration and region list, in another directory.
SameBuildElsewhere(f) ==
    /\ pc \in {"done", "aborted"}
    /\ GateReached
    /\ "no_netlist_cache" \in cls.has
    /\ ~cls.no_netlist_cache
    /\ Named
    /\ f.complete
    /\ f.dir # vdir
    /\ f.hw = HwArgsNow
    /\ f.hashed = HashedValues(cls, cpu.reset_address)

\* C3 as stated: a build of the same configuration and region list as an
\* earlier build that generated with success, run in another directory with
\* no_netlist_cache false, has the same netlist name and does not call
\* generate_netlist.
C3_HitAcrossDirectories ==
    \A f \in files :
        SameBuildElsewhere(f)
            => /\ NetlistFile(cls.netlist_name) = f.name
               /\ gen_calls = 0

\* C3 as amended: such a build has the same netlist name, whatever the
\* directory, and calls generate_netlist exactly when <name>.v is not in
\* the directory it looks in.
C3_SameNameHitIffPresent ==
    [][ ( /\ GateStep
          /\ ~cls.no_netlist_cache
          /\ {"scala_args", "scala_paths"} \subseteq cls.has )
          => \A f \in files :
                ( /\ f.complete
                  /\ f.hw = HwArgs(GenArgs(cls', cpu.reset_address, vdir))
                  /\ f.hashed = HashedValues(cls', cpu.reset_address) )
                    => /\ NetlistFile(cls'.netlist_name) = f.name
                       /\ gen_calls' = 0 <=> Exists(files, vdir, f.name) ]_vars

\* The same configuration built in a second directory: same name, and
\* generated again.
C3_Witness ==
    \E f \in files :
        /\ SameBuildElsewhere(f)
        /\ pc = "done"
        /\ NetlistFile(cls.netlist_name) = f.name
        /\ gen_calls = 1

\* C9: configuration validation.  A configuration with l2_bytes = 0 and
\* l2_ways # 0 is rejected before fingerprinting and generation: no build
\* names a netlist for it, and none calls generate_netlist with it.
C9_DegenerateCacheRejected ==
    (cls.l2_bytes = 0 /\ cls.l2_ways # 0)
        => /\ cls.netlist_name = NoName
           /\ gen_calls = 0

\* C11: generation failure across builds.  On every do_finalize step that
\* enters add_sources: when the external generator fails, the build aborts
\* having called generate_netlist once and added no source; and when
\* no_netlist_cache is false and the data directory holds a partly written
\* <netlist_name>.v that a failed generation left, generate_netlist is
\* called again.
C11_FailedGenerationNotCached ==
    [][ GateStep =>
          /\ err' = "CalledProcessError"
                => /\ pc' = "aborted"
                   /\ sources' = <<>>
                   /\ gen_calls' = 1
          /\ ( /\ ~cls.no_netlist_cache
               /\ \E f \in files :
                     /\ f.dir = vdir
                     /\ f.name = NetlistFile(cls'.netlist_name)
                     /\ ~f.complete )
                 => gen_calls' = 1 ]_vars

\* C12: the serialization generate_netlist_name hashes is injective.  For
\* this build, once it has named its netlist, and the build any stored
\* netlist was generated by: if the tuples of hashed values differ, the
\* texts fed to the hash differ, and so do the netlist names.
C12_SerializationInjective ==
    \A f \in files :
        ( /\ cls.netlist_name # NoName
          /\ f.hashed # HashedValues(cls, cpu.reset_address) )
            => /\ HashText(f.hashed) # HashInput(cls, cpu.reset_address)
               /\ f.name # NetlistFile(cls.netlist_name)

====
